---- MODULE Spec2Model ----
(***************************************************************************)
(* The Digikey part-search client of src/api/digikey.py, with the          *)
(* transport helper of src/api/core.py and the error taxonomy of           *)
(* src/api/exceptions.py.                                                  *)
(*                                                                         *)
(* The client is single threaded.  A call to lookup_by_part_numbers is a   *)
(* sequence of steps, one per GET, the server's answer to each GET being   *)
(* the environment's choice; get_auth_token and get_refresh_token are one  *)
(* step each (one POST and the handling of its answer).                    *)
(***************************************************************************)
EXTENDS Integers, Sequences, FiniteSets, TLC

VARIABLES
    cls,            \* class of the instance the methods are invoked on
    pc,             \* "new" | "failed" | "idle" | "lookup"
    auth_token,     \* self.auth_token
    refresh_token,  \* self.refresh_token
    op,             \* the method called last (running while pc = "lookup")
    part_numbers,   \* argument of the last lookup_by_part_numbers call
    header,         \* bearer token of the header dict built before the loop
    infos,          \* the local list infos of the running lookup
    gets,           \* GET requests sent by the last call, in order
    resps,          \* responses the last call's GETs received, in order
    posts,          \* POST requests sent by the last call, in order
    presps,         \* responses the last call's POSTs received, in order
    pre,            \* stored tokens when the last call started
    url,            \* self.url (<<>> before construction)
    base_url,       \* self.base_url (<<>> before construction)
    args,           \* arguments of the constructor, while it is the last call
    shown,          \* authorization URL the last call printed or opened
    input,          \* text the user typed in the last call
    retry,          \* where the caller is in refresh-and-retry after a 401
    transport,      \* exception requests raised in the last call, "none" if none
    outcome         \* how the last call ended: returned value or raised error

vars == <<cls, pc, auth_token, refresh_token, op, part_numbers, header, infos,
          gets, resps, posts, presps, pre, url, base_url, args, shown,
          input, retry, transport, outcome>>

----------------------------------------------------------------------------
(* Bounds and input sets *)

MaxParts == 2

None == "None"
Tokens == {"tokA", "tokB"}
OptTokens == Tokens \cup {None}
PartNums == {"A", "B"}
Codes == {"code1"}
Payloads == {"p1", "p2"}

\* Text is a sequence of symbols; "/" is the slash, every other symbol
\* stands for a piece of text without a slash at either end.
BaseUrlArgs == {<<"https://host">>, <<"https://host", "/">>}
Redirects == {"https://localhost"}
ClientId == "client_id"

\* The caller's refresh-and-retry: "refreshed" after a lookup that raised
\* on 401 and a refresh that returned, "retry" in the lookup called next;
\* stale is the token the failed lookup sent, fresh the access token the
\* refresh returned.
NoRetry == [stage |-> "none", stale |-> None, fresh |-> None]

NoArgs == [url |-> <<>>, auth |-> None, refresh |-> None]

RECURSIVE SeqsUpTo(_, _)
SeqsUpTo(S, n) ==
    IF n = 0 THEN {<<>>}
    ELSE LET shorter == SeqsUpTo(S, n - 1)
         IN  shorter \cup {Append(s, x) : s \in {t \in shorter : Len(t) = n - 1}, x \in S}

PartNumberLists == SeqsUpTo(PartNums, MaxParts)

----------------------------------------------------------------------------
(* Classes: which class defines which attribute, and attribute lookup *)

\* The instance is a Digikey as declared, or an instance of a class that
\* derives from Digikey and GetPost (the only way self.get and self.post
\* resolve; Digikey itself derives from PartSearch alone).
InstanceClasses == {"Digikey", "DigikeyGetPost"}

ClassAttrs(c) ==
    CASE c = "Digikey" ->
            {"__init__", "_check_auth_token", "_setup_helper_user_input",
             "_parse_error", "setup_helper_cmd", "setup_helper_browser",
             "get_auth_token", "get_refresh_token", "lookup_by_part_numbers"}
      [] c = "PartSearch" -> {"lookup_by_part_numbers", "lookup_by_names"}
      [] c = "GetPost"    -> {"__init__", "get", "post"}
      [] c = "object"     -> {"__init__"}
      [] OTHER            -> {}

MRO(c) ==
    IF c = "Digikey"
    THEN <<"Digikey", "PartSearch", "object">>
    ELSE <<c, "Digikey", "PartSearch", "GetPost", "object">>

\* First class of seq s, from position k on, that defines attr ("none" if none).
RECURSIVE FirstDefining(_, _, _)
FirstDefining(s, k, attr) ==
    IF k > Len(s) THEN "none"
    ELSE IF attr \in ClassAttrs(s[k]) THEN s[k]
    ELSE FirstDefining(s, k + 1, attr)

Resolve(c, attr) == FirstDefining(MRO(c), 1, attr)

PositionOf(s, x) == CHOOSE k \in 1..Len(s) : s[k] = x

\* super().__init__ inside Digikey.__init__: the next __init__ after Digikey.
SuperInit(c) == FirstDefining(MRO(c), PositionOf(MRO(c), "Digikey") + 1, "__init__")

----------------------------------------------------------------------------
(* Error taxonomy and call outcomes *)

PartSearchErrors ==
    {"PartSearchError", "PartSearchRateLimitError", "PartSearchConnectionError",
     "PartSearchAuthError", "PartSearchBadRequestError"}

\* Exceptions requests.get / requests.post raise when the server is not reached.
TransportErrors == {"ConnectionError", "Timeout"}

\* Variant: the helper wraps what requests raised into the taxonomy.
GetPostReraise_Wrapped(e) == "PartSearchConnectionError"

\* What GetPost.get and GetPost.post raise when requests raised e: the
\* except clause logs e and raises it again.
GetPostReraise(e) == e

NoMsg == [text |-> "", status |-> {}, body |-> {}]

NoOutcome == [kind |-> "none", exc |-> "none", msg |-> NoMsg,
              infos |-> <<>>, tokens |-> <<>>, code |-> <<>>]

Raise(e, m) == [kind |-> "raise", exc |-> e, msg |-> m,
                infos |-> <<>>, tokens |-> <<>>, code |-> <<>>]

ReturnInfos(l) == [kind |-> "return", exc |-> "none", msg |-> NoMsg,
                   infos |-> l, tokens |-> <<>>, code |-> <<>>]

ReturnTokens(a, r) == [kind |-> "return", exc |-> "none", msg |-> NoMsg,
                       infos |-> <<>>, tokens |-> <<a, r>>, code |-> <<>>]

ReturnCode(c) == [kind |-> "return", exc |-> "none", msg |-> NoMsg,
                  infos |-> <<>>, tokens |-> <<>>, code |-> c]

ReturnNone == [kind |-> "return", exc |-> "none", msg |-> NoMsg,
               infos |-> <<>>, tokens |-> <<>>, code |-> <<>>]

----------------------------------------------------------------------------
(* Responses of the part search endpoint *)

\* The keys of the response JSON the lookup reads (fields_needed).
Fields ==
    {"ProductDescription", "DigiKeyPartNumber", "MediaLinks", "Manufacturer",
     "ManufacturerLeadWeeks", "QuantityAvailable", "StandardPricing",
     "ProductStatus", "ProductUrl"}

\* A response body: text that is no JSON ("invalid"), a JSON array, or a JSON
\* object with the keys `keys`, whose Manufacturer has a Value or not, whose
\* StandardPricing has n_pricing entries and whose MediaLinks has n_media
\* entries.  id tells the payloads apart: the value found in body b under a
\* path is the pair of b.id and the path.
FullBody(p) ==
    [kind |-> "object", keys |-> Fields, manu_value |-> TRUE,
     n_pricing |-> IF p = "p1" THEN 3 ELSE 4,
     n_media |-> IF p = "p1" THEN 1 ELSE 2,
     id |-> p]

InvalidBody == [FullBody("p1") EXCEPT !.kind = "invalid", !.keys = {}]
ArrayBody   == [FullBody("p1") EXCEPT !.kind = "array", !.keys = {}]
EmptyBody   == [FullBody("p1") EXCEPT !.keys = {}]

SearchBodies ==
    {FullBody(p) : p \in Payloads}
    \cup {[FullBody("p1") EXCEPT !.n_pricing = 2]}
    \cup {[FullBody("p1") EXCEPT !.n_media = 0]}
    \cup {[FullBody("p1") EXCEPT !.keys = Fields \ {k}] :
              k \in {"ProductDescription", "StandardPricing", "ProductUrl"}}
    \cup {[FullBody("p1") EXCEPT !.manu_value = FALSE]}
    \cup {InvalidBody, ArrayBody}

\* Bodies that come with a status other than 200.
ErrorBodies == {EmptyBody, FullBody("p1")}

ErrorStatuses == {400, 401, 403, 404, 429, 503, 500, 201}

SearchResponses ==
    {[status |-> 200, body |-> b] : b \in SearchBodies}
    \cup {[status |-> s, body |-> EmptyBody] : s \in ErrorStatuses}
    \cup {[status |-> 404, body |-> b] : b \in ErrorBodies}

----------------------------------------------------------------------------
(* Digikey._check_auth_token and Digikey._parse_error *)


\* Variant: the check for a missing token is left out.
CheckAuthTokenRaises_Never(tok) == FALSE

CheckAuthTokenRaises(tok) == tok = None

CheckAuthTokenMsg ==
    [text |-> "Auth token is None, please get auth token first",
     status |-> {}, body |-> {}]


\* Variant: 404 falls through to the generic error.
ParseErrorClass_404Generic(status) ==
    IF status = 200 THEN "none"
    ELSE IF status = 400 THEN "PartSearchBadRequestError"
    ELSE IF status \in {401, 403} THEN "PartSearchAuthError"
    ELSE IF status = 429 THEN "PartSearchRateLimitError"
    ELSE IF status = 503 THEN "PartSearchConnectionError"
    ELSE "PartSearchError"

\* Variant: 404 is logged and not raised, the loop goes on.
ParseErrorClass_404Swallowed(status) ==
    IF status \in {200, 404} THEN "none"
    ELSE IF status = 400 THEN "PartSearchBadRequestError"
    ELSE IF status \in {401, 403} THEN "PartSearchAuthError"
    ELSE IF status = 429 THEN "PartSearchRateLimitError"
    ELSE IF status = 503 THEN "PartSearchConnectionError"
    ELSE "PartSearchError"

\* The class _parse_error raises for a status code, "none" when it returns.
ParseErrorClass(status) ==
    IF status = 200 THEN "none"
    ELSE IF status = 400 THEN "PartSearchBadRequestError"
    ELSE IF status = 401 THEN "PartSearchAuthError"
    ELSE IF status = 403 THEN "PartSearchAuthError"
    ELSE IF status = 404 THEN "PartSearchConnectionError"
    ELSE IF status = 429 THEN "PartSearchRateLimitError"
    ELSE IF status = 503 THEN "PartSearchConnectionError"
    ELSE "PartSearchError"

\* The message of the error _parse_error raises: a literal per branch.  The
\* status field holds the status codes the text spells out, the body field
\* the response bodies it embeds.
ParseErrorMsg(status) ==
    IF status = 400
    THEN [text |-> "Recieved status code 400, Bad request", status |-> {400}, body |-> {}]
    ELSE IF status = 401
    THEN [text |-> "Recieved status code 401, Token is probably expired", status |-> {401}, body |-> {}]
    ELSE IF status = 403
    THEN [text |-> "Recieved status code 403, Forbidden", status |-> {403}, body |-> {}]
    ELSE IF status = 404
    THEN [text |-> "Recieved status code 404, Not found", status |-> {404}, body |-> {}]
    ELSE IF status = 429
    THEN [text |-> "Recieved status code 429, DigiKey rate limit exceeded", status |-> {429}, body |-> {}]
    ELSE IF status = 503
    THEN [text |-> "Recieved status code 503, Service unavailable", status |-> {503}, body |-> {}]
    ELSE [text |-> "Unknown error occured", status |-> {}, body |-> {}]

----------------------------------------------------------------------------
(* Building a PartInfo from a 200 response *)

\* The exception the reads of lines 235-246 raise on body b, in the order the
\* code makes them, "none" when every read succeeds.
BodyParseError(b) ==
    IF b.kind = "invalid" THEN "JSONDecodeError"
    ELSE IF b.kind = "array" THEN "TypeError"
    ELSE IF "ProductDescription" \notin b.keys THEN "KeyError"
    ELSE IF "DigiKeyPartNumber" \notin b.keys THEN "KeyError"
    ELSE IF "Manufacturer" \notin b.keys THEN "KeyError"
    ELSE IF ~b.manu_value THEN "KeyError"
    ELSE IF "ManufacturerLeadWeeks" \notin b.keys THEN "KeyError"
    ELSE IF "QuantityAvailable" \notin b.keys THEN "KeyError"
    ELSE IF "StandardPricing" \notin b.keys THEN "KeyError"
    ELSE IF b.n_pricing <= 2 THEN "IndexError"
    ELSE IF "ProductStatus" \notin b.keys THEN "KeyError"
    ELSE IF "ProductUrl" \notin b.keys THEN "KeyError"
    ELSE IF "MediaLinks" \notin b.keys THEN "KeyError"
    ELSE IF b.n_media <= 0 THEN "IndexError"
    ELSE "none"

\* Variant: the unit price is read from the first pricing tier.
MkPartInfo_FirstTier(b) ==
    [name          |-> <<b.id, "ProductDescription">>,
     part_number   |-> <<b.id, "DigiKeyPartNumber">>,
     distributer   |-> <<"DigiKey">>,
     manufacturer  |-> <<b.id, "Manufacturer", "Value">>,
     lead_time     |-> <<b.id, "ManufacturerLeadWeeks">>,
     quantity      |-> <<b.id, "QuantityAvailable">>,
     unit_price    |-> <<b.id, "StandardPricing", ToString(0), "UnitPrice">>,
     life_cycle    |-> <<b.id, "ProductStatus">>,
     url           |-> <<b.id, "ProductUrl">>,
     datasheet_url |-> <<b.id, "MediaLinks", ToString(0), "Url">>]

MkPartInfo(b) ==
    [name          |-> <<b.id, "ProductDescription">>,
     part_number   |-> <<b.id, "DigiKeyPartNumber">>,
     distributer   |-> <<"DigiKey">>,
     manufacturer  |-> <<b.id, "Manufacturer", "Value">>,
     lead_time     |-> <<b.id, "ManufacturerLeadWeeks">>,
     quantity      |-> <<b.id, "QuantityAvailable">>,
     unit_price    |-> <<b.id, "StandardPricing", ToString(2), "UnitPrice">>,
     life_cycle    |-> <<b.id, "ProductStatus">>,
     url           |-> <<b.id, "ProductUrl">>,
     datasheet_url |-> <<b.id, "MediaLinks", ToString(0), "Url">>]

----------------------------------------------------------------------------
(* State after nothing has happened yet: the class is chosen, no instance *)

Init ==
    /\ cls \in InstanceClasses
    /\ pc = "new"
    /\ auth_token = None
    /\ refresh_token = None
    /\ op = "none"
    /\ part_numbers = <<>>
    /\ header = None
    /\ infos = <<>>
    /\ gets = <<>>
    /\ resps = <<>>
    /\ posts = <<>>
    /\ presps = <<>>
    /\ pre = [auth |-> None, refresh |-> None]
    /\ url = <<>>
    /\ base_url = <<>>
    /\ args = NoArgs
    /\ shown = <<>>
    /\ input = <<>>
    /\ retry = NoRetry
    /\ transport = "none"
    /\ outcome = NoOutcome

EndsWithSlash(u) == Len(u) > 0 /\ u[Len(u)] = "/"

\* Digikey.__init__, lines 35-36: a slash is appended to url if it has none.
NormalizeUrl(u) == IF EndsWithSlash(u) THEN u ELSE Append(u, "/")

\* GetPost.__init__: base_url is the argument, with a slash appended if it
\* has none.
GetPostBaseUrl(u) == IF EndsWithSlash(u) THEN u ELSE Append(u, "/")

\* Digikey.__init__: super().__init__(url) runs before any attribute is set.
\* With no __init__ between Digikey and object in the MRO, object.__init__
\* receives url and raises TypeError; with GetPost.__init__ next, base_url is
\* set and the attributes of Digikey follow.
Construct(u, a, r) ==
    /\ pc = "new"
    /\ op' = "__init__"
    /\ args' = [url |-> u, auth |-> a, refresh |-> r]
    /\ IF SuperInit(cls) = "object"
       THEN /\ pc' = "failed"
            /\ outcome' = Raise("TypeError", NoMsg)
            /\ UNCHANGED <<auth_token, refresh_token, url, base_url>>
       ELSE /\ pc' = "idle"
            /\ base_url' = GetPostBaseUrl(NormalizeUrl(u))
            /\ url' = NormalizeUrl(u)
            /\ auth_token' = a
            /\ refresh_token' = r
            /\ outcome' = ReturnNone
    /\ pre' = [auth |-> auth_token', refresh |-> refresh_token']
    /\ UNCHANGED <<cls, part_numbers, header, infos, gets, resps, posts, presps,
                   shown, input, retry, transport>>

----------------------------------------------------------------------------
(* URLs of the requests *)

\* GetPost.get and GetPost.post: url = self.base_url + ext_url.
GetUrl(base, ext) == base \o ext

PostUrl(base, ext) == base \o ext

\* ext_url of the search GET and of the token POST.
SearchPath(num) == <<"Search/v3/Products/", num>>

TokenPath == <<"v1/oauth2/token">>

\* The authorization URL of setup_helper_cmd and of setup_helper_browser.
AuthorizeQuery(rd) ==
    <<"v1/oauth2/authorize?response_type=code&client_id=", ClientId, "&redirect_uri=", rd>>

CmdUrl(u, rd) == u \o AuthorizeQuery(rd)

BrowserUrl(u, rd) == u \o <<"/">> \o AuthorizeQuery(rd)

----------------------------------------------------------------------------
(* Digikey.lookup_by_part_numbers *)

\* Variant: every iteration asks for the first part number.
LoopNum_First(pns, k) == pns[1]

\* The part number the k-th iteration of the loop puts into ext_url.
LoopNum(pns, k) == pns[k]

\* Variant: the header is built from the token stored before the last call.
HeaderToken_Stale(tok) == pre.auth

\* The bearer token of the Authorization header, built once before the loop.
HeaderToken(tok) == tok

\* The call up to the first GET: _check_auth_token, infos = [], the header;
\* with an empty list the loop body never runs and infos is returned.
LookupCall(pns) ==
    /\ pc = "idle"
    /\ op' = "lookup_by_part_numbers"
    /\ part_numbers' = pns
    /\ pre' = [auth |-> auth_token, refresh |-> refresh_token]
    /\ gets' = <<>>
    /\ resps' = <<>>
    /\ posts' = <<>>
    /\ presps' = <<>>
    /\ transport' = "none"
    /\ args' = NoArgs
    /\ shown' = <<>>
    /\ input' = <<>>
    /\ retry' = IF retry.stage = "refreshed" THEN [retry EXCEPT !.stage = "retry"] ELSE NoRetry
    /\ infos' = <<>>
    /\ IF CheckAuthTokenRaises(auth_token)
       THEN /\ outcome' = Raise("PartSearchAuthError", CheckAuthTokenMsg)
            /\ header' = None
            /\ pc' = "idle"
       ELSE /\ header' = HeaderToken(auth_token)
            /\ IF pns = <<>>
               THEN /\ outcome' = ReturnInfos(<<>>)
                    /\ pc' = "idle"
               ELSE /\ outcome' = NoOutcome
                    /\ pc' = "lookup"
    /\ UNCHANGED <<cls, auth_token, refresh_token, url, base_url>>

\* One iteration of the loop whose GET is answered by r: self.get,
\* _parse_error, the reads of the body, infos.append; after the last part
\* number the call returns infos.
LookupGetResponse(r) ==
    /\ pc = "lookup"
    /\ LET k == Len(gets) + 1
           e == ParseErrorClass(r.status)
           pe == BodyParseError(r.body)
       IN  /\ gets' = Append(gets, [num |-> LoopNum(part_numbers, k), bearer |-> header,
                                  url |-> GetUrl(base_url, SearchPath(LoopNum(part_numbers, k)))])
           /\ resps' = Append(resps, r)
           /\ IF e # "none"
              THEN /\ outcome' = Raise(e, ParseErrorMsg(r.status))
                   /\ infos' = <<>>
                   /\ pc' = "idle"
              ELSE IF pe # "none"
              THEN /\ outcome' = Raise(pe, NoMsg)
                   /\ infos' = <<>>
                   /\ pc' = "idle"
              ELSE IF k = Len(part_numbers)
              THEN /\ outcome' = ReturnInfos(Append(infos, MkPartInfo(r.body)))
                   /\ infos' = <<>>
                   /\ pc' = "idle"
              ELSE /\ outcome' = NoOutcome
                   /\ infos' = Append(infos, MkPartInfo(r.body))
                   /\ pc' = "lookup"
    /\ UNCHANGED <<cls, auth_token, refresh_token, op, part_numbers, header,
                   posts, presps, pre, url, base_url, args, shown,
                   input, retry, transport>>

\* One iteration of the loop whose GET does not reach the server:
\* GetPost.get logs the exception and raises it again.
LookupGetFail(t) ==
    /\ pc = "lookup"
    /\ LET num == LoopNum(part_numbers, Len(gets) + 1)
       IN  gets' = Append(gets, [num |-> num, bearer |-> header,
                                 url |-> GetUrl(base_url, SearchPath(num))])
    /\ transport' = t
    /\ outcome' = Raise(GetPostReraise(t), NoMsg)
    /\ infos' = <<>>
    /\ pc' = "idle"
    /\ UNCHANGED <<cls, auth_token, refresh_token, op, part_numbers, header,
                   resps, posts, presps, pre, url, base_url, args, shown,
                   input, retry>>

----------------------------------------------------------------------------
(* Responses of the token endpoint *)

\* A token response body: no JSON, a JSON array, or a JSON object with the
\* keys `keys`; access and refresh are the values of access_token and
\* refresh_token where the key is present.
TokenBody(ks, a, r) == [kind |-> "object", keys |-> ks, access |-> a, refresh |-> r]

TokenBodies ==
    {TokenBody({"access_token", "refresh_token"}, a, r) : a \in Tokens, r \in Tokens}
    \cup {TokenBody({"access_token"}, "tokA", None),
          TokenBody({"refresh_token"}, None, "tokB"),
          TokenBody({}, None, None),
          [TokenBody({}, None, None) EXCEPT !.kind = "invalid"],
          [TokenBody({}, None, None) EXCEPT !.kind = "array"]}

TokenStatuses == {200, 400}

TokenResponses == {[status |-> s, body |-> b] : s \in TokenStatuses, b \in TokenBodies}

\* The exception response.json()[key] raises on body b, "none" when it
\* yields a value.
JsonKeyError(b, key) ==
    IF b.kind = "invalid" THEN "JSONDecodeError"
    ELSE IF b.kind = "array" THEN "TypeError"
    ELSE IF key \notin b.keys THEN "KeyError"
    ELSE "none"

\* The message of the error raised on a non-200 token response: the f-string
\* of status_code and response.json().
TokenErrorMsg(resp) ==
    [text |-> "Error in getting auth token, Response: {status_code}, {json}",
     status |-> {resp.status}, body |-> {resp.body}]

\* The pair a token operation stores and returns from a 200 body.
AuthTokenPair(b) == [auth |-> b.access, refresh |-> b.refresh]


\* Variant: the two keys of the body are read the wrong way round.
RefreshTokenPair_Swapped(b) == [auth |-> b.refresh, refresh |-> b.access]

RefreshTokenPair(b) == [auth |-> b.access, refresh |-> b.refresh]

\* What get_auth_token does with the response of its POST (lines 160-169),
\* the stored tokens being a0 and r0: the tokens stored afterwards and the
\* outcome of the call.
AuthTokenResult(resp, a0, r0) ==
    LET b == resp.body
        new == AuthTokenPair(b)
    IN  IF resp.status = 200
        THEN IF JsonKeyError(b, "access_token") # "none"
             THEN [auth |-> a0, refresh |-> r0,
                   outcome |-> Raise(JsonKeyError(b, "access_token"), NoMsg)]
             ELSE IF JsonKeyError(b, "refresh_token") # "none"
             THEN [auth |-> new.auth, refresh |-> r0,
                   outcome |-> Raise(JsonKeyError(b, "refresh_token"), NoMsg)]
             ELSE [auth |-> new.auth, refresh |-> new.refresh,
                   outcome |-> ReturnTokens(new.auth, new.refresh)]
        ELSE IF b.kind = "invalid"
             THEN [auth |-> a0, refresh |-> r0, outcome |-> Raise("JSONDecodeError", NoMsg)]
             ELSE [auth |-> a0, refresh |-> r0,
                   outcome |-> Raise("PartSearchAuthError", TokenErrorMsg(resp))]

\* The same for get_refresh_token (lines 188-197).
RefreshTokenResult(resp, a0, r0) ==
    LET b == resp.body
        new == RefreshTokenPair(b)
    IN  IF resp.status = 200
        THEN IF JsonKeyError(b, "access_token") # "none"
             THEN [auth |-> a0, refresh |-> r0,
                   outcome |-> Raise(JsonKeyError(b, "access_token"), NoMsg)]
             ELSE IF JsonKeyError(b, "refresh_token") # "none"
             THEN [auth |-> new.auth, refresh |-> r0,
                   outcome |-> Raise(JsonKeyError(b, "refresh_token"), NoMsg)]
             ELSE [auth |-> new.auth, refresh |-> new.refresh,
                   outcome |-> ReturnTokens(new.auth, new.refresh)]
        ELSE IF b.kind = "invalid"
             THEN [auth |-> a0, refresh |-> r0, outcome |-> Raise("JSONDecodeError", NoMsg)]
             ELSE [auth |-> a0, refresh |-> r0,
                   outcome |-> Raise("PartSearchAuthError", TokenErrorMsg(resp))]

----------------------------------------------------------------------------
(* Digikey.get_auth_token and Digikey.get_refresh_token *)

\* The last call was a lookup that raised PartSearchAuthError on a 401: the
\* case in which the caller refreshes the token and calls lookup again.
AuthFailedLookup ==
    /\ op = "lookup_by_part_numbers"
    /\ outcome.kind = "raise"
    /\ outcome.exc = "PartSearchAuthError"
    /\ resps # <<>>
    /\ Len(resps) = Len(gets)
    /\ resps[Len(resps)].status = 401

\* What every token call resets: the traces and locals of the lookup.
TokenCallFrame ==
    /\ pre' = [auth |-> auth_token, refresh |-> refresh_token]
    /\ gets' = <<>>
    /\ resps' = <<>>
    /\ infos' = <<>>
    /\ args' = NoArgs
    /\ shown' = <<>>
    /\ input' = <<>>
    /\ part_numbers' = <<>>
    /\ header' = None
    /\ UNCHANGED <<cls, pc, url, base_url>>

GetAuthToken(code, resp) ==
    /\ pc = "idle"
    /\ retry' = NoRetry
    /\ op' = "get_auth_token"
    /\ posts' = <<[grant_type |-> "authorization_code", credential |-> code,
                 url |-> PostUrl(base_url, TokenPath)]>>
    /\ presps' = <<resp>>
    /\ transport' = "none"
    /\ LET res == AuthTokenResult(resp, auth_token, refresh_token)
       IN  /\ auth_token' = res.auth
           /\ refresh_token' = res.refresh
           /\ outcome' = res.outcome
    /\ TokenCallFrame

\* The POST does not reach the server: GetPost.post raises the exception again.
GetAuthTokenFail(code, t) ==
    /\ pc = "idle"
    /\ retry' = NoRetry
    /\ op' = "get_auth_token"
    /\ posts' = <<[grant_type |-> "authorization_code", credential |-> code,
                 url |-> PostUrl(base_url, TokenPath)]>>
    /\ presps' = <<>>
    /\ transport' = t
    /\ outcome' = Raise(GetPostReraise(t), NoMsg)
    /\ UNCHANGED <<auth_token, refresh_token>>
    /\ TokenCallFrame

GetRefreshToken(resp) ==
    /\ pc = "idle"
    /\ op' = "get_refresh_token"
    /\ posts' = <<[grant_type |-> "refresh_token", credential |-> refresh_token,
                 url |-> PostUrl(base_url, TokenPath)]>>
    /\ presps' = <<resp>>
    /\ transport' = "none"
    /\ LET res == RefreshTokenResult(resp, auth_token, refresh_token)
       IN  /\ auth_token' = res.auth
           /\ refresh_token' = res.refresh
           /\ outcome' = res.outcome
    /\ retry' = IF AuthFailedLookup /\ outcome'.kind = "return"
                THEN [stage |-> "refreshed", stale |-> header, fresh |-> outcome'.tokens[1]]
                ELSE NoRetry
    /\ TokenCallFrame

GetRefreshTokenFail(t) ==
    /\ pc = "idle"
    /\ retry' = NoRetry
    /\ op' = "get_refresh_token"
    /\ posts' = <<[grant_type |-> "refresh_token", credential |-> refresh_token,
                 url |-> PostUrl(base_url, TokenPath)]>>
    /\ presps' = <<>>
    /\ transport' = t
    /\ outcome' = Raise(GetPostReraise(t), NoMsg)
    /\ UNCHANGED <<auth_token, refresh_token>>
    /\ TokenCallFrame

----------------------------------------------------------------------------
(* Digikey._setup_helper_user_input, setup_helper_cmd, setup_helper_browser *)

\* What the user types: symbols, " " for white space, "code=" for the
\* marker, "&" for the separator, every other symbol for text without them.
UserInputs ==
    {<<"SaS6Y9OS">>,
     <<"https://localhost/?", "code=", "SaS6Y9OS", "&", "scope=">>,
     <<" ", "https://localhost/?", "code=", "SaS6Y9OS", " ">>,
     <<"code=", "SaS", "code=", "6Y9OS">>,
     <<>>}

\* str.strip(): white space at both ends removed.
RECURSIVE Strip(_)
Strip(t) ==
    IF t = <<>> THEN t
    ELSE IF Head(t) = " " THEN Strip(Tail(t))
    ELSE IF t[Len(t)] = " " THEN Strip(SubSeq(t, 1, Len(t) - 1))
    ELSE t

\* str.split(sep): the pieces of t between the occurrences of sep.
RECURSIVE Split(_, _)
Split(t, sep) ==
    IF \E i \in 1..Len(t) : t[i] = sep
    THEN LET i == CHOOSE k \in 1..Len(t) : t[k] = sep /\ \A j \in 1..(k - 1) : t[j] # sep
         IN  <<SubSeq(t, 1, i - 1)>> \o Split(SubSeq(t, i + 1, Len(t)), sep)
    ELSE <<t>>

Contains(t, x) == \E i \in 1..Len(t) : t[i] = x

UserInputErrorMsg == [text |-> "Error in getting code from input", status |-> {}, body |-> {}]

\* _setup_helper_user_input on the typed text: the code it returns or the
\* error it raises.
UserInputResult(typed) ==
    LET cleaned_input == Strip(typed)
    IN  IF Contains(cleaned_input, "code=")
        THEN ReturnCode(Split(Split(cleaned_input, "code=")[2], "&")[1])
        ELSE Raise("PartSearchError", UserInputErrorMsg)

\* What every helper call resets: the traces of the other calls.
HelperCallFrame ==
    /\ pre' = [auth |-> auth_token, refresh |-> refresh_token]
    /\ gets' = <<>>
    /\ resps' = <<>>
    /\ posts' = <<>>
    /\ presps' = <<>>
    /\ infos' = <<>>
    /\ args' = NoArgs
    /\ retry' = NoRetry
    /\ transport' = "none"
    /\ part_numbers' = <<>>
    /\ header' = None
    /\ UNCHANGED <<cls, pc, auth_token, refresh_token, url, base_url>>

SetupHelperCmd(rd, typed) ==
    /\ pc = "idle"
    /\ op' = "setup_helper_cmd"
    /\ shown' = CmdUrl(url, rd)
    /\ input' = typed
    /\ outcome' = UserInputResult(typed)
    /\ HelperCallFrame

SetupHelperBrowser(rd, typed) ==
    /\ pc = "idle"
    /\ op' = "setup_helper_browser"
    /\ shown' = BrowserUrl(url, rd)
    /\ input' = typed
    /\ outcome' = UserInputResult(typed)
    /\ HelperCallFrame

Next ==
    \/ \E u \in BaseUrlArgs, a \in OptTokens, r \in OptTokens : Construct(u, a, r)
    \/ \E pns \in PartNumberLists : LookupCall(pns)
    \/ \E r \in SearchResponses : LookupGetResponse(r)
    \/ \E t \in TransportErrors : LookupGetFail(t)
    \/ \E code \in Codes, resp \in TokenResponses : GetAuthToken(code, resp)
    \/ \E code \in Codes, t \in TransportErrors : GetAuthTokenFail(code, t)
    \/ \E resp \in TokenResponses : GetRefreshToken(resp)
    \/ \E t \in TransportErrors : GetRefreshTokenFail(t)
    \/ \E rd \in Redirects, typed \in UserInputs : SetupHelperCmd(rd, typed)
    \/ \E rd \in Redirects, typed \in UserInputs : SetupHelperBrowser(rd, typed)

Spec == Init /\ [][Next]_vars

\* The network call of an iteration returns or raises.
FairSpec ==
    Spec /\ WF_vars((\E r \in SearchResponses : LookupGetResponse(r))
                    \/ (\E t \in TransportErrors : LookupGetFail(t)))

----------------------------------------------------------------------------
(* Properties *)

TokenOps == {"get_auth_token", "get_refresh_token"}

InLookup == op = "lookup_by_part_numbers"

\* The last GET of the lookup was answered.
LastAnswered == InLookup /\ resps # <<>> /\ Len(resps) = Len(gets)

LastResp == resps[Len(resps)]

\* C1: a lookup called while auth_token is None raises PartSearchAuthError
\* at once, and sends no GET (nor any other request) before it raises.
C1_NoTokenFailsFast ==
    (InLookup /\ pre.auth = None)
        => /\ pc = "idle"
           /\ outcome.kind = "raise"
           /\ outcome.exc = "PartSearchAuthError"
           /\ gets = <<>>
           /\ posts = <<>>

C1_Witness ==
    /\ InLookup
    /\ pre.auth = None
    /\ Len(part_numbers) = MaxParts
    /\ outcome.exc = "PartSearchAuthError"

\* The status table of the lookup: the error kind of each status.
StatusTable(s) ==
    CASE s = 400 -> "PartSearchBadRequestError"
      [] s \in {401, 403} -> "PartSearchAuthError"
      [] s \in {404, 503} -> "PartSearchConnectionError"
      [] s = 429 -> "PartSearchRateLimitError"
      [] OTHER -> "PartSearchError"

\* C2: the lookup classifies the status of an answered GET as the status
\* table says: 200 raises no part-search error and, its body being readable,
\* adds a PartInfo; every other status ends the call by raising exactly the
\* error kind of the table, and no list is returned.
C2_StatusClassification ==
    LastAnswered
        => IF LastResp.status = 200
           THEN /\ outcome.exc \notin PartSearchErrors
                /\ BodyParseError(LastResp.body) = "none"
                     => /\ outcome.kind # "raise"
                        /\ Len(IF pc = "lookup" THEN infos ELSE outcome.infos) = Len(resps)
           ELSE /\ pc = "idle"
                /\ outcome.kind = "raise"
                /\ outcome.exc = StatusTable(LastResp.status)
                /\ outcome.infos = <<>>

C2_Witness ==
    /\ LastAnswered
    /\ LastResp.status = 500
    /\ outcome.exc = "PartSearchError"

\* C3: a lookup fails atomically: when a part number is answered with a
\* status other than 200 the call raises at that part number and the caller
\* receives no results, none for the earlier part numbers answered 200 either.
C3_AtomicFailure ==
    InLookup
        => \A i \in 1..Len(resps) :
              resps[i].status # 200
                  => /\ i = Len(resps)
                     /\ i = Len(gets)
                     /\ pc = "idle"
                     /\ outcome.kind = "raise"
                     /\ outcome.infos = <<>>

C3_Witness ==
    /\ InLookup
    /\ Len(resps) = 2
    /\ resps[1].status = 200
    /\ resps[2].status = 404
    /\ outcome.exc = "PartSearchConnectionError"
    /\ outcome.infos = <<>>

\* C4: with auth_token set and every part number of the input answered 200,
\* the lookup returns one PartInfo per part number, in input order, the i-th
\* built from the i-th response; the empty input returns the empty list and
\* sends no GET.
C4_OnePerInput ==
    (/\ InLookup
     /\ pc = "idle"
     /\ pre.auth # None
     /\ Len(resps) = Len(part_numbers)
     /\ \A i \in 1..Len(resps) : resps[i].status = 200)
        => /\ outcome.kind = "return"
           /\ Len(outcome.infos) = Len(part_numbers)
           /\ \A i \in 1..Len(outcome.infos) : outcome.infos[i] = MkPartInfo(resps[i].body)
           /\ part_numbers = <<>> => gets = <<>>

\* The token endpoint answered 200 with both tokens in a JSON object.
TokenSuccess ==
    /\ op \in TokenOps
    /\ presps # <<>>
    /\ presps[1].status = 200
    /\ presps[1].body.kind = "object"
    /\ {"access_token", "refresh_token"} \subseteq presps[1].body.keys

\* C5: when the token endpoint answers 200 with access_token a and
\* refresh_token r, get_auth_token and get_refresh_token store exactly a and
\* r and return the pair (a, r), whatever was stored before.
C5_TokensStored ==
    TokenSuccess
        => /\ auth_token = presps[1].body.access
           /\ refresh_token = presps[1].body.refresh
           /\ outcome = ReturnTokens(presps[1].body.access, presps[1].body.refresh)

C5_Witness ==
    /\ TokenSuccess
    /\ op = "get_refresh_token"
    /\ pre.auth \in Tokens
    /\ pre.refresh \in Tokens
    /\ presps[1].body.access # presps[1].body.refresh
    /\ pre.auth # presps[1].body.access
    /\ pre.refresh # presps[1].body.refresh
    /\ outcome.kind = "return"

\* C6: on every answer of the token endpoint with a status other than 200,
\* get_auth_token and get_refresh_token raise PartSearchAuthError with the
\* status and the body in its message, and no other error, whatever the body.
C6_TokenErrorIsAuthError ==
    (op \in TokenOps /\ presps # <<>> /\ presps[1].status # 200)
        => /\ outcome.kind = "raise"
           /\ outcome.exc = "PartSearchAuthError"
           /\ presps[1].status \in outcome.msg.status
           /\ presps[1].body \in outcome.msg.body

\* What holds of the requests of a lookup in every state.
C7_Requests ==
    InLookup
        => /\ Len(gets) <= Len(part_numbers)
           /\ \A k \in 1..Len(gets) : gets[k].num = part_numbers[k]
           /\ Len(resps) <= Len(gets)
           /\ Len(gets) <= Len(resps) + 1
           /\ \A i \in 1..Len(resps) : resps[i].status # 200 => i = Len(gets)
           /\ posts = <<>>
           /\ pc = "lookup" => Len(gets) < Len(part_numbers)
           /\ pc = "idle" => outcome.kind \in {"return", "raise"}

C8_RetryAfterAuthError ==
    (InLookup /\ pc = "idle")
        => \A i \in 1..Len(resps) :
              resps[i].status \in {401, 403}
                  => /\ posts # <<>>
                     /\ \E j \in (i + 1)..Len(gets) : gets[j].num = gets[i].num

\* C9: every part-search error a lookup raises for the status of a response
\* has the status code and the response body in its message.
C9_ErrorCarriesStatusAndBody ==
    (LastAnswered /\ outcome.kind = "raise" /\ outcome.exc \in PartSearchErrors)
        => /\ LastResp.status \in outcome.msg.status
           /\ LastResp.body \in outcome.msg.body

\* C10: a lookup, however it ends, and a get_auth_token or get_refresh_token
\* that ends in an error leave auth_token and refresh_token as they were
\* when the call started.
C10_TokensFrame ==
    (pc \in {"idle", "lookup"} /\ op # "__init__" /\ (InLookup \/ outcome.kind = "raise"))
        => /\ auth_token = pre.auth
           /\ refresh_token = pre.refresh

\* C11: an exception requests raises during a GET or a POST reaches the
\* caller of lookup, get_auth_token or get_refresh_token as that same
\* exception, never as one of the five part-search error kinds.
C11_TransportErrorUnchanged ==
    transport # "none"
        => /\ pc = "idle"
           /\ outcome.kind = "raise"
           /\ outcome.exc = transport
           /\ outcome.exc \notin PartSearchErrors

C11_Witness ==
    /\ InLookup
    /\ transport = "Timeout"
    /\ Len(gets) = 2
    /\ Len(resps) = 1
    /\ outcome.exc = "Timeout"

\* u without the slashes at its end.
RECURSIVE Stem(_)
Stem(u) == IF EndsWithSlash(u) THEN Stem(SubSeq(u, 1, Len(u) - 1)) ELSE u

\* base and rel joined with exactly one slash.
JoinOnce(base, rel) == Stem(base) \o <<"/">> \o rel

\* C12: a client constructed with u and one constructed with u + "/" use
\* the same URL for every operation, the base and the relative path joined
\* with exactly one slash: the stored URLs after construction, the URL of
\* every search GET and token POST, and the authorization URL.
C12_UrlNormalization ==
    pc \in {"idle", "lookup"}
        => LET base == IF op = "__init__" THEN args.url ELSE url
           IN  /\ op = "__init__" => url = JoinOnce(base, <<>>) /\ base_url = JoinOnce(base, <<>>)
               /\ \A k \in 1..Len(gets) : gets[k].url = JoinOnce(base, SearchPath(gets[k].num))
               /\ \A k \in 1..Len(posts) : posts[k].url = JoinOnce(base, TokenPath)
               /\ shown # <<>> => \E rd \in Redirects : shown = JoinOnce(base, AuthorizeQuery(rd))

\* C16: constructing the client never raises; the new client stores
\* the supplied auth_token and refresh_token and has get and post.
C16_ConstructSucceeds ==
    op = "__init__"
        => /\ outcome.kind = "return"
           /\ pc = "idle"
           /\ auth_token = args.auth
           /\ refresh_token = args.refresh
           /\ Resolve(cls, "get") # "none"
           /\ Resolve(cls, "post") # "none"

HelperOps == {"setup_helper_cmd", "setup_helper_browser"}

\* The text of t between its first "code=" and the next "&", or the end.
TextAfterMarker(t) ==
    LET i == CHOOSE k \in 1..Len(t) : t[k] = "code=" /\ \A j \in 1..(k - 1) : t[j] # "code="
        rest == SubSeq(t, i + 1, Len(t))
        ends == {k \in 1..Len(rest) : rest[k] = "&"}
        j == IF ends = {} THEN Len(rest) + 1
             ELSE CHOOSE k \in ends : \A m \in ends : k <= m
    IN  SubSeq(rest, 1, j - 1)

\* C17: the user-code step returns, for input with a "code=" marker, the
\* text between the first marker and the next "&" or the end of the input;
\* for a raw code string it returns that code; it raises PartSearchError only
\* when there is no marker and no code.
C17_UserCode ==
    op \in HelperOps
        => LET typed == Strip(input)
           IN  IF Contains(typed, "code=")
               THEN outcome = ReturnCode(TextAfterMarker(typed))
               ELSE IF typed # <<>>
               THEN outcome = ReturnCode(typed)
               ELSE outcome.kind = "raise" /\ outcome.exc = "PartSearchError"

\* The PartInfo objects the lookup has built so far.
Collected == IF pc = "lookup" THEN infos ELSE outcome.infos

\* C13: the PartInfo built from a 200 response has unit_price equal to
\* StandardPricing[2].UnitPrice of the body, name = ProductDescription,
\* part_number = DigiKeyPartNumber, manufacturer = Manufacturer.Value,
\* lead_time = ManufacturerLeadWeeks, quantity = QuantityAvailable,
\* life_cycle = ProductStatus, url = ProductUrl, datasheet_url =
\* MediaLinks[0].Url, and the distributor 'DigiKey'.
C13_FieldMapping ==
    InLookup
        => \A i \in 1..Len(Collected) :
              LET p == resps[i].body.id
                  info == Collected[i]
              IN  /\ resps[i].status = 200
                  /\ info.unit_price = <<p, "StandardPricing", "2", "UnitPrice">>
                  /\ info.name = <<p, "ProductDescription">>
                  /\ info.part_number = <<p, "DigiKeyPartNumber">>
                  /\ info.manufacturer = <<p, "Manufacturer", "Value">>
                  /\ info.lead_time = <<p, "ManufacturerLeadWeeks">>
                  /\ info.quantity = <<p, "QuantityAvailable">>
                  /\ info.life_cycle = <<p, "ProductStatus">>
                  /\ info.url = <<p, "ProductUrl">>
                  /\ info.datasheet_url = <<p, "MediaLinks", "0", "Url">>
                  /\ info.distributer = <<"DigiKey">>

C13_Witness ==
    /\ InLookup
    /\ outcome.kind = "return"
    /\ Len(outcome.infos) = 2
    /\ resps[1].body.id = "p2"
    /\ resps[1].body.n_pricing = 4
    /\ resps[2].body.id = "p1"
    /\ outcome.infos[1].unit_price = <<"p2", "StandardPricing", "2", "UnitPrice">>

\* C14: every GET of a lookup carries as bearer the auth_token stored when
\* the call started; in the lookup called again after a 401 and a refresh
\* that returned access token a', every GET carries a'.
C14_FreshTokenOnRetry ==
    InLookup
        => /\ \A k \in 1..Len(gets) : gets[k].bearer = pre.auth
           /\ retry.stage = "retry" => \A k \in 1..Len(gets) : gets[k].bearer = retry.fresh

C14_Witness ==
    /\ InLookup
    /\ retry.stage = "retry"
    /\ retry.fresh # retry.stale
    /\ Len(gets) = 2
    /\ gets[1].bearer = retry.fresh
    /\ outcome.kind = "return"

\* C15: when the server answers every GET, an error the lookup raises is
\* PartSearchError or one of its subclasses, also on a 200 response whose
\* body lacks a key or has too few StandardPricing or MediaLinks entries.
C15_ErrorsInTaxonomy ==
    (InLookup /\ outcome.kind = "raise" /\ transport = "none")
        => outcome.exc \in PartSearchErrors

====
